---- MODULE Spec2Model ----
(***************************************************************************)
(* Optimal activity levels (OptimalActivityLevel.ipynb).                   *)
(*                                                                         *)
(* The notebook sets the problem data (A, cmax, p, pdisc, q), defines      *)
(* revenue(), builds a CVXPY problem                                       *)
(*     maximize sum(min_elemwise(p.x, p.q + pdisc.(x - q)))                *)
(*     subject to x >= 0, A*x <= cmax                                      *)
(* solves it and prints five lines computed from the result.               *)
(*                                                                         *)
(* Numbers.  Activity levels, breakpoints q, capacities cmax and money     *)
(* are fixed-point numbers with Den units to 1 (x = 45 with Den = 2 is     *)
(* the level 22.5); prices p, pdisc and the entries of A are plain         *)
(* integers.  A product price * level is again fixed-point, so the         *)
(* code's expressions are written as they stand.                           *)
(***************************************************************************)
EXTENDS Integers, Sequences, FiniteSets

VARIABLES A, cmax, p, pdisc, q,   \* problem data (cell 1)
          x,                      \* x.value of the CVXPY Variable: None before / without a solution
          status, result,         \* prob.status and the value prob.solve() returned
          rev, avg, total,        \* what lines 119, 120, 121 computed
          revCalls,               \* number of calls of revenue() so far
          lp,                     \* the linear program's variables (x_1..x_n, r_1..r_n) at its optimum
          tab,                    \* the simplex tableau of a solve in progress
          pc                      \* the next statement of cell 2

vars == <<A, cmax, p, pdisc, q, x, status, result, rev, avg, total, revCalls, lp, tab, pc>>

(* ------------------------------ bounds -------------------------------- *)
Den  == 2      \* fixed-point resolution: units per 1
NAct == 2      \* n, activities of the generated instances
NRes == 2      \* m, resources of the generated instances
AMax == 1      \* entries of A range over -AMax..AMax
CMax == 2      \* capacities range over -1..CMax
PMax == 3      \* prices range over 1..PMax
QMax == 2      \* breakpoints range over 1..QMax

Acts == 1..NAct
Res  == 1..NRes

None == << >>

(* ------------------------------ helpers ------------------------------- *)
Min(a, b) == IF a <= b THEN a ELSE b

RECURSIVE SumTo(_, _)
SumTo(f, k) == IF k = 0 THEN 0 ELSE f[k] + SumTo(f, k - 1)

\* np.sum / cvxpy sum of a vector
Sum(f) == SumTo(f, Len(f))

\* one row of A*x
RECURSIVE DotTo(_, _, _)
DotTo(a, xx, k) == IF k = 0 THEN 0 ELSE a[k] * xx[k] + DotTo(a, xx, k - 1)

Dot(a, xx) == DotTo(a, xx, Len(xx))

Num(v) == [inf |-> 0, val |-> v]
PlusInf == [inf |-> 1, val |-> 0]
MinusInf == [inf |-> -1, val |-> 0]

(* ----------------------------- revenue() ------------------------------ *)
\* ind1 with <= for <: both indicators are 1 at x_j = q_j
ind1Le(xx) == [j \in DOMAIN xx |-> IF xx[j] <= q[j] THEN 1 ELSE 0]

\* ind1 = (x_ravel < q).astype(np.int)
ind1(xx) == [j \in DOMAIN xx |-> IF xx[j] < q[j] THEN 1 ELSE 0]

\* ind2 with > for >=: no indicator is 1 at x_j = q_j
ind2Strict(xx) == [j \in DOMAIN xx |-> IF xx[j] > q[j] THEN 1 ELSE 0]

\* ind2 = (x_ravel >= q).astype(np.int)
ind2(xx) == [j \in DOMAIN xx |-> IF xx[j] >= q[j] THEN 1 ELSE 0]

\* revenue() written after the notebook's first markdown cell:
\* p_j x_j + pdisc_j (x_j - q_j) beyond the breakpoint
revenueDocumented(xx) ==
    [j \in DOMAIN xx |-> (ind1(xx)[j] * p[j] * xx[j])
                         + (ind2(xx)[j] * (p[j] * xx[j] + pdisc[j] * (xx[j] - q[j])))]

\* return (ind1 * p * x_ravel) + (ind2 * (p * q + pdisc * (x_ravel-q)))
revenue(xx) ==
    [j \in DOMAIN xx |-> (ind1(xx)[j] * p[j] * xx[j])
                         + (ind2(xx)[j] * (p[j] * q[j] + pdisc[j] * (xx[j] - q[j])))]

(* ------------------------ the CVXPY problem --------------------------- *)
Max(a, b) == IF a >= b THEN a ELSE b

\* the objective with max_elemwise for min_elemwise
objectiveMaxElemwise(xx) ==
    Sum([j \in DOMAIN xx |-> Max(p[j] * xx[j], p[j] * q[j] + pdisc[j] * (xx[j] - q[j]))])

\* the objective with the second piece missing its base revenue p_j q_j
objectiveNoBase(xx) ==
    Sum([j \in DOMAIN xx |-> Min(p[j] * xx[j], pdisc[j] * (xx[j] - q[j]))])

\* sum(min_elemwise(mul_elemwise(p, x), mul_elemwise(p, q) + mul_elemwise(pdisc, (x-q))))
objective(xx) ==
    Sum([j \in DOMAIN xx |-> Min(p[j] * xx[j], p[j] * q[j] + pdisc[j] * (xx[j] - q[j]))])

\* the constraints without x >= 0
constraintsNoSign(xx) ==
    \A i \in DOMAIN A : Dot(A[i], xx) <= cmax[i]

\* the constraints with A*x < cmax
constraintsStrict(xx) ==
    /\ \A j \in DOMAIN xx : xx[j] >= 0
    /\ \A i \in DOMAIN A : Dot(A[i], xx) < cmax[i]

\* constraints = [x >= 0, A*x <= cmax]
constraints(xx) ==
    /\ \A j \in DOMAIN xx : xx[j] >= 0
    /\ \A i \in DOMAIN A : Dot(A[i], xx) <= cmax[i]

(* --------------------------- prob.solve() ----------------------------- *)
\* The activity levels the solver ranges over: every level on the fixed-point
\* grid from below zero up to XHi.  With integer data of the instance family a
\* bounded feasible set has its vertices on this grid (2 * CMax * AMax bounds a
\* vertex coordinate by Cramer's rule for NAct = 2).
XHi == 2 * CMax * AMax * Den
Lattice == [Acts -> (-1)..XHi]

\* Directions d >= 0, d # 0 along which the feasible set is unbounded.
Rays == {d \in [Acts -> 0..AMax] :
            /\ \E j \in Acts : d[j] > 0
            /\ \A i \in DOMAIN A : Dot(A[i], d) <= 0}

Feasible == {xx \in Lattice : constraints(xx)}

\* The levels at which the objective is largest over the feasible set.
ArgMax == LET vals == {objective(yy) : yy \in Feasible}
              best == CHOOSE v \in vals : \A w \in vals : w <= v
          IN {xx \in Feasible : objective(xx) = best}

\* prob.status after prob.solve(): the objective grows without bound along a
\* ray because every pdisc[j] > 0.
SolveStatus == IF Feasible = {} THEN "infeasible"
               ELSE IF Rays # {} THEN "unbounded"
               ELSE "optimal"

(* ------------------------------ cell 1 -------------------------------- *)
ValidPrices(pp, dd, qq) ==
    \A j \in DOMAIN pp : pp[j] > 0 /\ qq[j] > 0 /\ 0 < dd[j] /\ dd[j] < pp[j]

Init ==
    /\ A \in [Res -> [Acts -> (-AMax)..AMax]]
    /\ cmax \in [Res -> {c * Den : c \in (-1)..CMax}]
    /\ p \in [Acts -> 1..PMax]
    /\ pdisc \in [Acts -> 1..PMax]
    /\ q \in [Acts -> {k * Den : k \in 1..QMax}]
    /\ ValidPrices(p, pdisc, q)
    /\ x = None
    /\ status = "unsolved"
    /\ result = Num(0)
    /\ rev = None /\ avg = None /\ total = 0
    /\ revCalls = 0
    /\ lp = None
    /\ tab = None
    /\ pc = "solve"

(* ------------------------------ cell 2 -------------------------------- *)
\* result = prob.solve()
Solve ==
    /\ pc = "solve"
    /\ status' = SolveStatus
    /\ IF SolveStatus = "optimal"
         THEN /\ x' \in ArgMax
              /\ result' = Num(objective(x'))
         ELSE /\ x' = None
              /\ result' = IF SolveStatus = "unbounded" THEN PlusInf ELSE MinusInf
    /\ pc' = "print_result"
    /\ UNCHANGED <<A, cmax, p, pdisc, q, rev, avg, total, revCalls, lp, tab>>

\* print("Optimal revenue p* = {:.2f}".format(result))
PrintResult ==
    /\ pc = "print_result"
    /\ pc' = "print_x"
    /\ UNCHANGED <<A, cmax, p, pdisc, q, x, status, result, rev, avg, total, revCalls, lp, tab>>

\* print("Optimal activity levels x* = {}".format(np.ravel(x.value)))
PrintX ==
    /\ pc = "print_x"
    /\ pc' = "print_revenue"
    /\ UNCHANGED <<A, cmax, p, pdisc, q, x, status, result, rev, avg, total, revCalls, lp, tab>>

\* print("Optimal revenue per activity r_j: {}".format(revenue(x.value)))
\* revenue(None) compares None with q and raises TypeError.
PrintRevenue ==
    /\ pc = "print_revenue"
    /\ revCalls' = revCalls + 1
    /\ IF x = None
         THEN pc' = "TypeError" /\ rev' = rev
         ELSE pc' = "print_average" /\ rev' = revenue(x)
    /\ UNCHANGED <<A, cmax, p, pdisc, q, x, status, result, avg, total, lp, tab>>

\* numpy's float division: 0/0 is nan, a/0 is +-inf (a RuntimeWarning, no exception)
Divide(a, b) == IF b # 0 THEN [kind |-> "value", num |-> a, den |-> b]
                ELSE IF a = 0 THEN [kind |-> "nan", num |-> 0, den |-> 0]
                ELSE [kind |-> "inf", num |-> a, den |-> 0]

\* print("Average price per unit of activity: {}".format(revenue(x.value)/np.ravel(x.value)))
PrintAverage ==
    /\ pc = "print_average"
    /\ revCalls' = revCalls + 1
    /\ avg' = [j \in DOMAIN x |-> Divide(revenue(x)[j], x[j])]
    /\ pc' = "print_total"
    /\ UNCHANGED <<A, cmax, p, pdisc, q, x, status, result, rev, total, lp, tab>>

\* print("Total Revenue: {:.2f}".format(revenue(x.value).sum()))
PrintTotal ==
    /\ pc = "print_total"
    /\ revCalls' = revCalls + 1
    /\ total' = Sum(revenue(x))
    /\ pc' = "done"
    /\ UNCHANGED <<A, cmax, p, pdisc, q, x, status, result, rev, avg, lp, tab>>

Next == Solve \/ PrintResult \/ PrintX \/ PrintRevenue \/ PrintAverage \/ PrintTotal

Spec == Init /\ [][Next]_vars

(* ------------------- the reference problem (cell 1) ------------------- *)
RefA == << <<1, 2, 0, 1>>, <<0, 0, 3, 1>>, <<0, 3, 1, 1>>, <<2, 1, 2, 5>>, <<1, 0, 3, 2>> >>
RefCmax == <<100, 100, 100, 100, 100>>
RefP == <<3, 2, 7, 6>>
RefPdisc == <<2, 1, 4, 2>>
RefQ == <<4, 10, 5, 10>>

\* The recorded output of cell 2, in hundredths.
RefResultCents == 19250
RefXCents == <<400, 2250, 3100, 150>>
RefRevenueCents == <<1200, 3250, 13900, 900>>

Fixed(v) == [k \in DOMAIN v |-> v[k] * Den]

InitRef ==
    /\ A = RefA
    /\ cmax = Fixed(RefCmax)
    /\ p = RefP
    /\ pdisc = RefPdisc
    /\ q = Fixed(RefQ)
    /\ x = [j \in DOMAIN RefP |-> 0]
    /\ status = "unsolved"
    /\ result = Num(0)
    /\ rev = None /\ avg = None /\ total = 0
    /\ revCalls = 0
    /\ lp = None
    /\ tab = None
    /\ pc = "probe"

\* The candidate level of activity j moves one grid step up inside the
\* feasible set.  A >= 0 here, so every feasible level is reached from 0 by
\* raising x_1 first, then x_2, and so on: each level is visited once.
Probe(j) ==
    /\ pc = "probe"
    /\ \A k \in DOMAIN x : k > j => x[k] = 0
    /\ x' = [x EXCEPT ![j] = @ + 1]
    /\ constraints(x')
    /\ UNCHANGED <<A, cmax, p, pdisc, q, status, result, rev, avg, total, revCalls, lp, tab, pc>>

\* result = prob.solve() on the reference data: the solver stops at a feasible
\* level that attains the recorded optimal value.
SolveRef ==
    /\ pc = "probe"
    /\ constraints(x)
    /\ objective(x) * 100 = RefResultCents * Den
    /\ status' = "optimal"
    /\ result' = Num(objective(x))
    /\ pc' = "print_result"
    /\ UNCHANGED <<A, cmax, p, pdisc, q, x, rev, avg, total, revCalls, lp, tab>>

NextRef == (\E j \in DOMAIN RefP : Probe(j)) \/ SolveRef
              \/ PrintResult \/ PrintX \/ PrintRevenue \/ PrintAverage \/ PrintTotal

SpecRef == InitRef /\ [][NextRef]_vars

(* ------------- revenue() and the objective as functions --------------- *)
\* Every valid price data and every level x >= 0 on the grid; A and cmax play
\* no part.
InitFn ==
    /\ A = [i \in Res |-> [j \in Acts |-> 0]]
    /\ cmax = [i \in Res |-> 0]
    /\ p \in [Acts -> 1..PMax]
    /\ pdisc \in [Acts -> 1..PMax]
    /\ q \in [Acts -> {k * Den : k \in 1..QMax}]
    /\ ValidPrices(p, pdisc, q)
    /\ x \in [Acts -> 0..XHi]
    /\ status = "unsolved"
    /\ result = Num(0)
    /\ rev = None /\ avg = None /\ total = 0
    /\ revCalls = 0
    /\ lp = None
    /\ tab = None
    /\ pc = "revenue"

CallRevenue ==
    /\ pc = "revenue"
    /\ rev' = revenue(x)
    /\ revCalls' = revCalls + 1
    /\ pc' = "objective"
    /\ UNCHANGED <<A, cmax, p, pdisc, q, x, status, result, avg, total, lp, tab>>

EvalObjective ==
    /\ pc = "objective"
    /\ result' = Num(objective(x))
    /\ pc' = "evaluated"
    /\ UNCHANGED <<A, cmax, p, pdisc, q, x, status, rev, avg, total, revCalls, lp, tab>>

NextFn == CallRevenue \/ EvalObjective

SpecFn == InitFn /\ [][NextFn]_vars

(* ----------------------- the linear program --------------------------- *)
\* r_j - p_j x_j <= 0 and r_j - pdisc_j x_j <= p_j q_j - pdisc_j q_j
LPRevCons(j, v, rr) ==
    /\ rr - p[j] * v <= 0
    /\ rr - pdisc[j] * v <= p[j] * q[j] - pdisc[j] * q[j]

\* The values an auxiliary revenue variable ranges over: from below zero to
\* above every revenue a level of the grid can earn.
RHi == PMax * XHi + 1
RRange == (-1)..RHi

\* The feasible set of the linear program over (x_1..x_n, r_1..r_n).
LPFeasible == {v \in Feasible \X [Acts -> RRange] :
                  \A j \in Acts : LPRevCons(j, v[1][j], v[2][j])}

\* maximize sum_j r_j
LPArgMax == LET vals == {Sum(v[2]) : v \in LPFeasible}
                best == CHOOSE b \in vals : \A w \in vals : w <= b
            IN {v \in LPFeasible : Sum(v[2]) = best}

\* The largest value of r_j the two constraints of activity j allow at level v.
LargestR(j, v) ==
    CHOOSE rr \in RRange : /\ LPRevCons(j, v, rr)
                           /\ \A r2 \in RRange : LPRevCons(j, v, r2) => r2 <= rr

\* Instances whose last resource is a budget shared by all activities, so
\* that the program is never unbounded.
InitLP ==
    /\ A \in [Res -> [Acts -> (-AMax)..AMax]]
    /\ A[NRes] = [j \in Acts |-> 1]
    /\ cmax \in [Res -> {c * Den : c \in (-1)..CMax}]
    /\ cmax[NRes] = CMax * Den
    /\ p \in [Acts -> 1..PMax]
    /\ pdisc \in [Acts -> 1..PMax]
    /\ q \in [Acts -> {k * Den : k \in 1..QMax}]
    /\ ValidPrices(p, pdisc, q)
    /\ x = None
    /\ status = "unsolved"
    /\ result = Num(0)
    /\ rev = None /\ avg = None /\ total = 0
    /\ revCalls = 0
    /\ lp = None
    /\ tab = None
    /\ pc = "reformulate"

\* The linear program is built and solved.
SolveLP ==
    /\ pc = "reformulate"
    /\ IF SolveStatus = "optimal" THEN lp' \in LPArgMax ELSE lp' = None
    /\ pc' = "solve"
    /\ UNCHANGED <<A, cmax, p, pdisc, q, x, status, result, rev, avg, total, revCalls, tab>>

NextLP == SolveLP \/ Solve \/ PrintResult \/ PrintX \/ PrintRevenue \/ PrintAverage \/ PrintTotal

SpecLP == InitLP /\ [][NextLP]_vars

(* ------------------------ the simplex solver -------------------------- *)
\* Linear programs  maximize c.y  subject to  M y <= b, y >= 0  with b >= 0,
\* so that the slack basis is the basic feasible solution Phase 2 starts from.
\* The tableau holds integers over the common denominator D (the last pivot
\* element): row i is T[i] / D, the objective row is z / D.
ProgramA == << << <<-1, -4, 0, -2, -2, 6>>,
                  <<-2, 4, 1, -4, -3, 5>> >>,
               << <<-2, -3, -3, -2, 4, 1>>,
                  <<-3, -4, 4, 4, 2, -4>>,
                  <<4, 3, 3, -2, -2, -4>> >> >>
ProgramC == << <<-5, 5, 2, -6, -2, -3>>,
               <<-3, -3, 1, 3, -1, -4>> >>

BMax == 1      \* right-hand sides range over 0..BMax

RECURSIVE SortedSeq(_)
SortedSeq(S) == IF S = {} THEN << >>
                ELSE LET mn == CHOOSE a \in S : \A c \in S : a <= c
                     IN <<mn>> \o SortedSeq(S \ {mn})

Range(f) == {f[k] : k \in DOMAIN f}

\* The tableau of  maximize cc.y, MM y <= bb  in standard equality form: one
\* slack per row, the slack of row i basic in row i.
StandardForm(MM, bb, cc, rule) ==
    LET m == Len(MM)
        n == Len(cc)
    IN [rule   |-> rule,
        n      |-> n,
        m      |-> m,
        T      |-> [i \in 1..m |->
                      [j \in 1..(n + m + 1) |->
                          IF j <= n THEN MM[i][j]
                          ELSE IF j <= n + m THEN (IF j = n + i THEN 1 ELSE 0)
                          ELSE bb[i]]],
        z      |-> [j \in 1..(n + m + 1) |-> IF j <= n THEN -cc[j] ELSE 0],
        D      |-> 1,
        basis  |-> [i \in 1..m |-> n + i],
        seen   |-> {},
        status |-> "phase2",
        degenerate |-> FALSE,
        tied   |-> FALSE]

\* Nonbasic variables whose reduced cost improves the objective.
Improving(t) == {j \in 1..(t.n + t.m) : j \notin Range(t.basis) /\ t.z[j] < 0}

\* The smallest-index rule among improving candidates.
Entering(t) == CHOOSE j \in Improving(t) : \A k \in Improving(t) : j <= k

\* Rows with a positive entry in the pivot column.
PosRows(t, e) == {i \in 1..t.m : t.T[i][e] > 0}

\* The rows of the minimum ratio rhs / entry.
MinRatioRows(t, e) ==
    LET W == t.n + t.m + 1
    IN {i \in PosRows(t, e) :
           \A k \in PosRows(t, e) : t.T[i][W] * t.T[k][e] <= t.T[k][W] * t.T[i][e]}

\* Ties broken by smallest row index.
SmallestRow(t, e) ==
    CHOOSE i \in MinRatioRows(t, e) : \A k \in MinRatioRows(t, e) : i <= k

\* Bland's rule with its ties broken by row position
BlandByRow(t, e) ==
    CHOOSE i \in MinRatioRows(t, e) : \A k \in MinRatioRows(t, e) : i <= k

\* Bland's rule: ties broken by the smallest index of the leaving variable.
BlandRow(t, e) ==
    CHOOSE i \in MinRatioRows(t, e) :
        \A k \in MinRatioRows(t, e) : t.basis[i] <= t.basis[k]

LeavingRow(t, e) == IF t.rule = "bland" THEN BlandRow(t, e) ELSE SmallestRow(t, e)

\* The tableau after the pivot on row l, column e.
Pivoted(t, l, e) ==
    LET W  == t.n + t.m + 1
        pv == t.T[l][e]
    IN [t EXCEPT
          !.T = [i \in 1..t.m |->
                   IF i = l THEN t.T[l]
                   ELSE [j \in 1..W |-> (t.T[i][j] * pv - t.T[i][e] * t.T[l][j]) \div t.D]],
          !.z = [j \in 1..W |-> (t.z[j] * pv - t.z[e] * t.T[l][j]) \div t.D],
          !.D = pv,
          !.basis = [t.basis EXCEPT ![l] = e],
          !.seen = t.seen \cup {t.basis},
          !.degenerate = t.degenerate \/ t.T[l][W] = 0,
          !.tied = t.tied \/ SmallestRow(t, e) # BlandRow(t, e)]

InitSimplex ==
    /\ A = [i \in Res |-> [j \in Acts |-> 0]]
    /\ cmax = [i \in Res |-> 0]
    /\ p = [j \in Acts |-> 2]
    /\ pdisc = [j \in Acts |-> 1]
    /\ q = [j \in Acts |-> Den]
    /\ x = None
    /\ status = "unsolved"
    /\ result = Num(0)
    /\ rev = None /\ avg = None /\ total = 0
    /\ revCalls = 0
    /\ lp = None
    /\ \E k \in DOMAIN ProgramA :
       \E S \in (SUBSET (1..Len(ProgramC[k]))) \ {{}} :
       \E bb \in [1..Len(ProgramA[k]) -> 0..BMax] :
       \E rule \in {"row", "bland"} :
          LET cols == SortedSeq(S)
          IN tab = StandardForm(
                      [i \in 1..Len(ProgramA[k]) |->
                          [j \in 1..Len(cols) |-> ProgramA[k][i][cols[j]]]],
                      bb,
                      [j \in 1..Len(cols) |-> ProgramC[k][cols[j]]],
                      rule)
    /\ pc = "simplex"

\* One Phase 2 pivot.
Pivot ==
    /\ pc = "simplex"
    /\ tab.status = "phase2"
    /\ Improving(tab) # {}
    /\ PosRows(tab, Entering(tab)) # {}
    /\ tab' = Pivoted(tab, LeavingRow(tab, Entering(tab)), Entering(tab))
    /\ UNCHANGED <<A, cmax, p, pdisc, q, x, status, result, rev, avg, total, revCalls, lp, pc>>

\* No entering variable has an improving reduced cost.
StopOptimal ==
    /\ pc = "simplex"
    /\ tab.status = "phase2"
    /\ Improving(tab) = {}
    /\ tab' = [tab EXCEPT !.status = "optimal"]
    /\ UNCHANGED <<A, cmax, p, pdisc, q, x, status, result, rev, avg, total, revCalls, lp, pc>>

\* The entering variable has no positive entry in any row.
StopUnbounded ==
    /\ pc = "simplex"
    /\ tab.status = "phase2"
    /\ Improving(tab) # {}
    /\ PosRows(tab, Entering(tab)) = {}
    /\ tab' = [tab EXCEPT !.status = "unbounded"]
    /\ UNCHANGED <<A, cmax, p, pdisc, q, x, status, result, rev, avg, total, revCalls, lp, pc>>

NextSimplex == Pivot \/ StopOptimal \/ StopUnbounded

SpecSimplex == InitSimplex /\ [][NextSimplex]_vars

(* ============================== claims ================================ *)
Solved == status # "unsolved"

\* The two affine pieces of activity j at level v.
Piece1(j, v) == p[j] * v
Piece2(j, v) == p[j] * q[j] + pdisc[j] * (v - q[j])

(* C1. Exactness of the reformulation: at every level v >= 0 the largest r_j
   that satisfies r_j - p_j v <= 0 and r_j - pdisc_j v <= p_j q_j - pdisc_j q_j
   is min(p_j v, p_j q_j + pdisc_j (v - q_j)); the optimum of the linear
   program equals the optimum of the sum-of-minimums objective the code
   builds, and each is attained at the other's x. *)
ReformulationExact ==
    /\ pc = "solve" =>
          \A j \in Acts : \A v \in 0..XHi :
              LargestR(j, v) = Min(Piece1(j, v), Piece2(j, v))
    /\ (pc = "print_result" /\ status = "optimal") =>
          /\ lp # None
          /\ Sum(lp[2]) = result.val
          /\ objective(lp[1]) = result.val
          /\ \A j \in Acts : lp[2][j] = LargestR(j, lp[1][j])
          /\ Sum([j \in Acts |-> LargestR(j, x[j])]) = Sum(lp[2])
          /\ <<x, [j \in Acts |-> LargestR(j, x[j])]>> \in LPFeasible

ReformulationExactWitness ==
    /\ pc = "print_result" /\ status = "optimal" /\ lp # None
    /\ lp[1] # x
    /\ \E j \in Acts : lp[1][j] > q[j] /\ lp[2][j] = Piece2(j, lp[1][j])
    /\ \E j \in Acts : lp[1][j] > 0 /\ lp[1][j] < q[j] /\ lp[2][j] = Piece1(j, lp[1][j])

(* C2. Reference scenario: on the notebook's data the solve ends Optimal with
   objective 192.50, x = [4, 22.5, 31, 1.5] and per-activity revenue
   [12, 32.5, 139, 9]: this x is feasible, its total revenue is 192.50 and no
   feasible x has a larger total revenue. *)
ReferenceScenario ==
    /\ pc = "probe" => objective(x) * 100 <= RefResultCents * Den
    /\ pc = "done" =>
          /\ status = "optimal"
          /\ result.val * 100 = RefResultCents * Den
          /\ \A j \in DOMAIN x : x[j] * 100 = RefXCents[j] * Den
          /\ \A j \in DOMAIN x : x[j] >= 0
          /\ \A i \in DOMAIN RefA : Dot(RefA[i], x) <= RefCmax[i] * Den
          /\ \A j \in DOMAIN x : rev[j] * 100 = RefRevenueCents[j] * Den
          /\ total * 100 = RefResultCents * Den

ReferenceScenarioWitness ==
    /\ pc = "done"
    /\ total * 100 = RefResultCents * Den
    /\ x[2] * 100 = 2250 * Den

(* C3. Objective consistency: after an Optimal solve the value prob.solve()
   returned equals the sum over the activities of revenue() at the optimal x. *)
ObjectiveConsistency ==
    (pc = "done" /\ status = "optimal") => result = Num(total)

ObjectiveConsistencyWitness ==
    /\ pc = "done" /\ status = "optimal" /\ total > 0
    /\ \E j \in Acts : x[j] = q[j]
    /\ \E j \in Acts : x[j] > q[j]

(* C4. Feasibility: an optimal x has every x_j >= 0 and every (A x)_i <=
   cmax_i, also when A has negative entries. *)
FeasibilityLaw ==
    status = "optimal" =>
        /\ \A j \in Acts : x[j] >= 0
        /\ \A i \in Res : Dot(A[i], x) <= cmax[i]

FeasibilityLawWitness ==
    /\ status = "optimal"
    /\ \E i \in Res : \E j \in Acts :
          A[i][j] < 0 /\ x[j] > 0 /\ Dot(A[i], x) = cmax[i]
    /\ \E j \in Acts : x[j] = 0

(* C5. Per-activity revenue: revenue() returns p_j x_j when x_j <= q_j and
   p_j q_j + pdisc_j (x_j - q_j) otherwise, which is the minimum of the two
   pieces; the pieces cross exactly at x_j = q_j, and exactly one indicator
   contributes at every x_j. *)
RevenuePiecewise ==
    rev # None =>
        \A j \in DOMAIN x :
            /\ rev[j] = IF x[j] <= q[j] THEN p[j] * x[j]
                        ELSE p[j] * q[j] + pdisc[j] * (x[j] - q[j])
            /\ rev[j] = Min(Piece1(j, x[j]), Piece2(j, x[j]))
            /\ ind1(x)[j] + ind2(x)[j] = 1
            /\ (Piece1(j, x[j]) = Piece2(j, x[j])) <=> (x[j] = q[j])

RevenuePiecewiseWitness ==
    /\ rev # None
    /\ x[1] = q[1] /\ rev[1] = p[1] * q[1]
    /\ x[2] > q[2]

(* C6, as documented in the notebook's first cell: beyond the breakpoint the
   revenue is p_j x_j + pdisc_j (x_j - q_j), and revenue() and the objective
   compute it. *)
DocumentedRevenueFormula ==
    pc = "evaluated" =>
        /\ \A j \in DOMAIN x :
              rev[j] = IF x[j] >= q[j] THEN p[j] * x[j] + pdisc[j] * (x[j] - q[j])
                       ELSE p[j] * x[j]
        /\ result = Num(Sum(rev))

(* C6, amended: the revenue is p_j x_j up to the breakpoint and
   p_j q_j + pdisc_j (x_j - q_j) from it on, it is concave in x_j (its
   increments never grow), and the objective is the sum of revenue(). *)
RevenueConcave ==
    pc = "evaluated" =>
        /\ \A j \in DOMAIN x :
              /\ x[j] <= q[j] => rev[j] = p[j] * x[j]
              /\ x[j] >= q[j] => rev[j] = p[j] * q[j] + pdisc[j] * (x[j] - q[j])
              /\ \A v \in 1..(XHi - 1) :
                    LET f(w) == revenue([x EXCEPT ![j] = w])[j]
                    IN f(v + 1) - f(v) <= f(v) - f(v - 1)
        /\ result = Num(Sum(rev))

RevenueConcaveWitness ==
    /\ pc = "evaluated"
    /\ \E j \in DOMAIN x : x[j] > q[j] /\ rev[j] < p[j] * x[j]

(* C7. Status propagation: after a solve that ended Infeasible or Unbounded
   the evaluation is never run: revenue() is not called. *)
StatusPropagation ==
    status \in {"infeasible", "unbounded"} => revCalls = 0 /\ pc # "TypeError"

(* C8. Effective average price: revenue_j / x_j when x_j > 0, and reported as
   "not applicable", without a division, when x_j = 0. *)
AveragePriceGuarded ==
    pc = "done" =>
        \A j \in DOMAIN x :
            IF x[j] > 0
              THEN avg[j] = [kind |-> "value", num |-> rev[j], den |-> x[j]]
              ELSE avg[j].kind = "not applicable"

Zero == [j \in Acts |-> 0]

\* Activity j consumes a resource of capacity 0 that no activity produces.
ForcedToZero(j) ==
    \E i \in Res : /\ cmax[i] = 0
                   /\ A[i][j] > 0
                   /\ \A k \in Acts : A[i][k] >= 0

(* C9, as stated: with every cmax_i >= 0 the solve is never Infeasible, and
   when a capacity of 0 forces activities to level 0 the solve returns
   Optimal with revenue 0 for them. *)
BoundaryOptimal ==
    (Solved /\ \A i \in Res : cmax[i] >= 0) =>
        /\ status # "infeasible"
        /\ \A j \in Acts : ForcedToZero(j) =>
              /\ status = "optimal"
              /\ x[j] = 0
              /\ rev # None => rev[j] = 0

(* C9, amended: with every cmax_i >= 0 the zero vector is feasible and the
   solve is never Infeasible; it is Optimal or, when another activity can
   grow without limit, Unbounded; when it is Optimal the activities a
   capacity of 0 forces to level 0 have level 0 and revenue 0. *)
BoundaryNeverInfeasible ==
    (Solved /\ \A i \in Res : cmax[i] >= 0) =>
        /\ Zero \in Feasible
        /\ status \in {"optimal", "unbounded"}
        /\ \A j \in Acts : (ForcedToZero(j) /\ status = "optimal") =>
              /\ x[j] = 0
              /\ rev # None => rev[j] = 0

BoundaryNeverInfeasibleWitness ==
    /\ pc = "done" /\ status = "optimal"
    /\ \E i \in Res : cmax[i] = 0
    /\ \E j \in Acts : ForcedToZero(j) /\ rev[j] = 0
    /\ \E j \in Acts : ~ForcedToZero(j) /\ rev[j] > 0

(* C10, as stated: with the entering variable the smallest-index improving
   candidate and the leaving row the minimum-ratio row of smallest row index,
   Phase 2 never cycles: it never comes back to a basis it has left. *)
SimplexNeverCycles ==
    (pc = "simplex" /\ tab.rule = "row") => tab.basis \notin tab.seen

(* C10, amended: with the ties of the minimum-ratio test broken by the
   smallest index of the leaving variable (Bland's rule) Phase 2 never
   cycles, always has a next step until it stops, keeps the basic solution
   feasible, and stops Optimal only when no
   improving candidate remains and Unbounded only when the entering column
   has no positive entry. *)
SimplexBlandTerminates ==
    (pc = "simplex" /\ tab.rule = "bland") =>
        /\ tab.basis \notin tab.seen
        /\ \A i \in 1..tab.m : tab.T[i][tab.n + tab.m + 1] >= 0
        /\ tab.D > 0
        /\ tab.status = "phase2" => ENABLED NextSimplex
        /\ tab.status = "optimal" => Improving(tab) = {}
        /\ tab.status = "unbounded" =>
              Improving(tab) # {} /\ PosRows(tab, Entering(tab)) = {}

SimplexBlandTerminatesWitness ==
    /\ pc = "simplex" /\ tab.rule = "bland"
    /\ tab.status = "optimal"
    /\ tab.degenerate /\ tab.tied
    /\ Cardinality(tab.seen) >= 2

====
